---- MODULE Spec2Model ----
(***************************************************************************)
(* Model of epics_fe.cxx, the EPICS -> MIDAS frontend: frontend_init and   *)
(* epics_init (connection of the configured channels), epics_loop and      *)
(* epics_get_measured (the gated sweep over the channels) and epics_read   *)
(* (the E000 bank of the measured values).                                 *)
(*                                                                         *)
(* Channel indices are the code's, 0..N-1; arrays are functions over       *)
(* 0..N-1.  A DWORD / unsigned int is a pair <<hi, lo>> of 16-bit halves,   *)
(* so that arithmetic modulo 2^32 is exact.                                *)
(***************************************************************************)
EXTENDS Integers, Sequences, FiniteSets, TLC

(* ---------------- bounds of the model ---------------- *)

\* largest number of configured channels (size of Settings/Names)
MaxN == 2
\* number of epics_loop calls explored
MaxTicks == 2

(* ---------------- program constants ---------------- *)

FE_SUCCESS == 1
FE_ERR_HW == 603
CM_SUCCESS == 1
ECA_NORMAL == 1
ECA_ALLOCMEM == 48
ECA_TIMEOUT == 80
ECA_DISCONN == 192
CA_M_SUCCESS == 1
\* CAGET_TIMEOUT, in milliseconds
CAGET_TIMEOUT_MS == 30000
\* ca_pend_io(5.0), in milliseconds
CONNECT_TIMEOUT_MS == 5000
\* ss_sleep(500)
LOOP_SLEEP_MS == 500
\* sizeof(float), sizeof(BANK_HEADER), sizeof(BANK)
SIZEOF_FLOAT == 4
SIZEOF_BANK_HEADER == 8
SIZEOF_BANK == 8
\* the defaults of lines 109-112: Update interval, and the size of the arrays
DEFAULT_INTERVAL == 10
DEFAULT_SIZE == 5
\* the end of the start command lines 128-132 make of __FILE__
START_COMMAND == "build/epics_fe"
\* a null chid
NULL == 0
\* half of a DWORD
HALF == 65536

(* ---------------- unsigned 32-bit arithmetic ---------------- *)

DWORDS == (0 .. HALF - 1) \X (0 .. HALF - 1)

\* the DWORD of a natural number below 2^31
ToDw(n) == << n \div HALF, n % HALF >>

\* conversion of an int to unsigned int (beamline.updateInterval = settings[...])
IntToUnsigned(v) ==
    IF v >= 0 THEN ToDw(v)
    ELSE LET u == (v + 2147483647) + 1
         IN  << (u \div HALF) + (HALF \div 2), u % HALF >>

\* a + d modulo 2^32, d a natural number below 2^31
DwAdd(a, d) ==
    LET lo == a[2] + (d % HALF)
        hi == a[1] + (d \div HALF) + (lo \div HALF)
    IN  << hi % HALF, lo % HALF >>

\* a > b, unsigned
DwGt(a, b) == a[1] > b[1] \/ (a[1] = b[1] /\ a[2] > b[2])

\* a difference taken as the distance of a and b, without wrap-around
DwSub_Magnitude(a, b) ==
    LET big == IF DwGt(b, a) THEN b ELSE a
        small == IF DwGt(b, a) THEN a ELSE b
        lo == big[2] - small[2]
        borrow == IF lo < 0 THEN 1 ELSE 0
    IN  << (big[1] - small[1] - borrow) % HALF, lo % HALF >>

\* a - b modulo 2^32
DwSub(a, b) ==
    LET lo == a[2] - b[2]
        borrow == IF lo < 0 THEN 1 ELSE 0
        hi == a[1] - b[1] - borrow
    IN  << hi % HALF, lo % HALF >>

(* ---------------- helpers on arrays ---------------- *)

Idx(n) == 0 .. n - 1

Size(f) == Cardinality(DOMAIN f)

Zeros(n) == [k \in Idx(n) |-> 0]

\* the array of no element
NoArray == [k \in {} |-> 0]

\* the name of channel k in Settings/Names and in Settings/CA Name
DisplayName(k) == "name" \o ToString(k)
PvName(k) == "pv" \o ToString(k)

(* ---------------- state ---------------- *)

VARIABLES
    odb_settings,       \* the keys that exist under /Equipment/EPICS/Settings
    odb_names,          \* /Equipment/EPICS/Settings/Names
    odb_caname,         \* /Equipment/EPICS/Settings/CA Name
    odb_enabled,        \* /Equipment/EPICS/Settings/Enabled
    odb_interval,       \* /Equipment/EPICS/Settings/Update interval (int)
    odb_hasMeasured,    \* whether /Equipment/EPICS/Variables/Measured exists
    odb_measured,       \* /Equipment/EPICS/Variables/Measured
    odb_startCommand,   \* /Programs/EPICS Frontend/Start command
    hooks,              \* the functions handed to the framework
    length,             \* beamline.length
    updateInterval,     \* beamline.updateInterval (unsigned int)
    measured,           \* beamline.measured: chid per channel, empty while nullptr
    last_time_measured, \* static DWORD of epics_loop
    now,                \* ss_millitime()
    pc,                 \* position of the frontend
    chan,               \* loop variable i of epics_init and of the sweep
    status,             \* int status of epics_init, then what frontend_init returned
    name,               \* std::string name of the call that waits in ca_pend_io
    getStatus,          \* int status of the epics_get_measured that waits
    enabledRead,        \* Settings/Enabled[channel] as line 220 of that call read it
    event,              \* the event epics_read wrote, empty once it is sent
    retlen,             \* value epics_read returned, -1 once the event is sent
    readPos,            \* loop variable i of an epics_read under way, else -1
    bank,               \* the floats that epics_read has written so far
    \* history variables
    t,                  \* true time in ms elapsed since the first state
    ticks,              \* number of epics_loop calls so far
    edited,             \* whether another client has edited Settings/Enabled
    renamed,            \* whether another client has edited Names or CA Name
    enabledAtInit,      \* Settings/Enabled[i] as line 172 read it, FALSE if it did not
    priorExists,        \* whether frontend_init found Variables/Measured
    priorMeasured,      \* Variables/Measured as frontend_init found it
    attempted,          \* channels ca_create_channel was called for
    created,            \* channels ca_create_channel stored a chid for
    connected,          \* channels with a chid whose ca_pend_io(5.0) completed
    connectTimedOut,    \* channels whose ca_pend_io(5.0) timed out
    initMsgs,           \* cm_msg calls of epics_init
    sweeps,             \* number of sweeps started
    sweepStart,         \* t when the last sweep started, -1 if none
    sweepEnd,           \* t when the last sweep ended, -1 if none
    pre,                \* Measured when the last sweep started
    calls,              \* epics_get_measured calls of the last sweep
    sweepMsgs,          \* cm_msg calls of the last sweep
    held,               \* per slot, the values it held during the last epics_read
    interleaved         \* whether line 234 wrote a slot during that epics_read

vars == << odb_settings, odb_names, odb_caname, odb_enabled, odb_interval,
           odb_hasMeasured, odb_measured, odb_startCommand, hooks, length,
           updateInterval, measured, last_time_measured, now, pc, chan,
           status, name, getStatus, enabledRead, event, retlen, readPos,
           bank, t, ticks, edited, renamed, enabledAtInit, priorExists,
           priorMeasured, attempted, created, connected, connectTimedOut,
           initMsgs, sweeps, sweepStart, sweepEnd, pre, calls, sweepMsgs,
           held, interleaved >>

(* ---------------- inputs ---------------- *)

\* values of the millisecond clock when the frontend starts: an ordinary one
\* and one 400 ms before the clock wraps around 2^32
OrdinaryClock == ToDw(100000)
ClockBeforeWrap == << HALF - 1, HALF - 400 >>

\* what the frontend finds when it starts: Settings/Update interval (the
\* default, a longer one, a negative one), the clock, and whether a prior run
\* left Variables/Measured
Boots == { [interval |-> 10, clock |-> OrdinaryClock, prior |-> TRUE],
           [interval |-> 1000, clock |-> OrdinaryClock, prior |-> FALSE],
           [interval |-> 1000, clock |-> ClockBeforeWrap, prior |-> FALSE],
           [interval |-> -1, clock |-> OrdinaryClock, prior |-> TRUE] }

\* the value the remote channel k holds during sweep number s: every sweep
\* finds a new value, different from 0 and from what a prior run left
SampleOf(s, k) == 100 * s + k

\* the float values a read of channel k delivers in sweep number s
ReadValues(s, k) == {SampleOf(s, k)}

\* a float that is none of the values the model names (a denormal, for one)
OtherFloat == -7

\* the sizes of the Measured array a prior run may have left in the ODB
PriorSizes == {1}

\* the Measured array a prior run of size m left behind: slot k holds 10 + k
PriorRun(m) == [k \in Idx(m) |-> 10 + k]

\* values the float f of line 226 may hold when ca_get stored nothing in it:
\* any float, which is, of the floats of the model, zero, a value an earlier
\* call or a prior run left behind, or another one
Garbage(arr) == {0, OtherFloat} \cup {arr[k] : k \in DOMAIN arr}

\* what /Programs/EPICS Frontend/Start command may hold before the frontend
\* starts: no key, an empty string, a command somebody set
NoStartCommand == [exists |-> FALSE, value |-> ""]
EmptyStartCommand == [exists |-> TRUE, value |-> ""]
OtherStartCommand == [exists |-> TRUE, value |-> "other"]

\* what ca_create_channel and ca_get return: success, or a failure of warning
\* severity, after which SEVCHK prints and the program goes on
CreateStatuses == {ECA_NORMAL, ECA_ALLOCMEM}
GetStatuses == {ECA_NORMAL, ECA_DISCONN}

\* what ca_pend_io returns, whatever status st the request before it had: the
\* code asks only whether it is ECA_TIMEOUT
PendIoResults(st) == {ECA_NORMAL, ECA_TIMEOUT}

\* how long a connect and a read that complete take, and how long it is from
\* one epics_loop call to the next (ss_sleep(500) and the scheduler's work)
ConnectDelays == {5}
ReadDelays == {5}
SleepDelays == {LOOP_SLEEP_MS, LOOP_SLEEP_MS + 700}

\* a ca_create_channel that stores no chid
ChidOf_Null(k) == NULL

\* the value a chid of channel k points to (never NULL)
ChidOf(k) == k + 1

(* ---------------- frontend_init, epics_init ---------------- *)

\* the keys of Settings the frontend uses (lines 108-113)
AllKeys == {"Update interval", "Names", "CA Name", "Enabled"}

\* settings.connect (line 116): a key that exists keeps its value, a missing
\* one is created with the default of lines 108-113
WithDefault(key, value, dflt) == IF key \in odb_settings THEN value ELSE dflt

\* status & CA_M_SUCCESS
CaSucceeded(st) == (st % 2) = CA_M_SUCCESS

\* a resize that drops the values the array held
Resize_DropsValues(arr, n) == Zeros(n)

\* the array after midas::odb resize(n): kept values, zeros in new slots
Resize(arr, n) == [k \in Idx(n) |-> IF k \in DOMAIN arr THEN arr[k] ELSE 0]

\* an initialization that always creates the array afresh
MeasuredAfterInit_AlwaysFresh(exists, arr, n) == Zeros(n)

\* Variables/Measured after lines 123-126 of frontend_init
MeasuredAfterInit(exists, arr, n) ==
    IF ~exists THEN Zeros(n) ELSE Resize(arr, n)

\* Start command after lines 128-142: set where the key was missing or empty
StartCommandAfterInit(cmd) ==
    IF ~cmd.exists \/ cmd.value = ""
    THEN [exists |-> TRUE, value |-> START_COMMAND]
    ELSE cmd

\* a loop that connects channels without a CA Name too
InitConnects_IgnoresName(k) == odb_enabled[k]

\* a loop that connects disabled channels too
InitConnects_IgnoresEnabled(k) == odb_caname[k] # ""

\* whether the loop of epics_init goes on to connect channel k (lines 172, 181)
InitConnects(k) == odb_enabled[k] /\ odb_caname[k] # ""

\* whether the ca_create_channel that returned st wrote a chid through its
\* last argument: it did when it succeeded, and line 185 leaves to the
\* library what is in the slot when it did not
ChidStored(st) == IF CaSucceeded(st) THEN {TRUE} ELSE {FALSE, TRUE}

\* beamline.measured after the ca_create_channel of line 185: the slot holds
\* the chid if the call stored one and is not touched otherwise
HandlesAfterCreate(handles, k, stored) ==
    IF stored THEN [handles EXCEPT ![k] = ChidOf(k)] ELSE handles

\* a connect timeout that leaves the status of ca_create_channel in place
StatusAfterConnectTimeout_Kept(st) == st

\* status after a ca_pend_io(5.0) that timed out (line 189)
StatusAfterConnectTimeout(st) == FE_ERR_HW

\* the cm_msg calls of lines 187-188 after the connect wait of channel nm
ConnectMsgs(nm, pendio) ==
    IF pendio = ECA_TIMEOUT
    THEN << [src |-> "epics_init", name |-> nm] >>
    ELSE << >>

\* a loop that goes on with the next channel after a connect timeout
NextInitIndex_Continues(k, n, pendio) == k + 1

\* the loop variable of epics_init after channel k was created: the break of
\* line 190 ends the loop, as index n does
NextInitIndex(k, n, pendio) == IF pendio = ECA_TIMEOUT THEN n ELSE k + 1

\* the Settings the frontend finds in the ODB: the keys that exist, n Names,
\* nc CA Names (some of them empty) and ne Enabled flags
InitSettings(keys, n, nc, ne) ==
    /\ odb_settings = keys
    /\ \E boot \in Boots :
          /\ now = boot.clock
          /\ odb_hasMeasured = boot.prior
          /\ odb_interval = IF "Update interval" \in keys THEN boot.interval ELSE 0
    /\ odb_names = IF "Names" \in keys
                   THEN [k \in Idx(n) |-> DisplayName(k)] ELSE NoArray
    /\ \E named \in SUBSET Idx(nc) :
          odb_caname = IF "CA Name" \in keys
                       THEN [k \in Idx(nc) |-> IF k \in named THEN PvName(k) ELSE ""]
                       ELSE NoArray
    /\ odb_enabled \in (IF "Enabled" \in keys
                        THEN [Idx(ne) -> BOOLEAN] ELSE {NoArray})

\* the rest of the state before frontend_init runs
InitFrontend ==
    /\ \E m \in PriorSizes :
          odb_measured = IF odb_hasMeasured THEN PriorRun(m) ELSE NoArray
    /\ hooks = {}
    /\ length = 0
    /\ updateInterval = ToDw(0)
    /\ measured = NoArray
    /\ last_time_measured = ToDw(0)
    /\ pc = "boot"
    /\ chan = 0
    /\ status = 0
    /\ name = ""
    /\ getStatus = 0
    /\ enabledRead = FALSE
    /\ event = NoArray
    /\ retlen = -1
    /\ readPos = -1
    /\ bank = NoArray
    /\ held = NoArray
    /\ interleaved = FALSE
    /\ t = 0
    /\ ticks = 0
    /\ edited = FALSE
    /\ renamed = FALSE
    /\ enabledAtInit = NoArray
    /\ priorExists = FALSE
    /\ priorMeasured = NoArray
    /\ attempted = {}
    /\ created = {}
    /\ connected = {}
    /\ connectTimedOut = {}
    /\ initMsgs = << >>
    /\ sweeps = 0
    /\ sweepStart = -1
    /\ sweepEnd = -1
    /\ pre = NoArray
    /\ calls = << >>
    /\ sweepMsgs = << >>

\* the state before frontend_init runs: an ODB without Settings, or one whose
\* three arrays have one size, as the defaults of lines 110-112 have
Init ==
    /\ \/ /\ InitSettings({}, 0, 0, 0)
          /\ odb_startCommand = NoStartCommand
       \/ /\ \E n \in 0 .. MaxN : InitSettings(AllKeys, n, n, n)
          /\ odb_startCommand = EmptyStartCommand
    /\ InitFrontend

\* the same with the default interval and a CA Name for every channel
InitEdit ==
    /\ Init
    /\ \A k \in DOMAIN odb_caname : odb_caname[k] # ""
    /\ odb_interval = 10
    /\ now = OrdinaryClock

\* the state before frontend_init runs when CA Name or Enabled is missing,
\* and gets its default size, or has an entry more than Names
InitMismatch ==
    /\ \E n \in 0 .. MaxN, nc \in 0 .. MaxN + 1, ne \in 0 .. MaxN + 1,
          missing \in SUBSET {"CA Name", "Enabled"} :
          /\ nc \in {n, n + 1}
          /\ ne \in {n, n + 1}
          /\ "CA Name" \in missing => nc = n
          /\ "Enabled" \in missing => ne = n
          /\ missing # {} \/ nc # n \/ ne # n
          /\ InitSettings(AllKeys \ missing, n, nc, ne)
    /\ odb_startCommand \in {EmptyStartCommand, OtherStartCommand}
    /\ InitFrontend
    /\ odb_interval = 10
    /\ now = OrdinaryClock

\* frontend_init up to the loop of epics_init (lines 101-169)
FrontendInit ==
    /\ pc = "boot"
    /\ hooks' = {"epics_fe_error", "epics_loop"}
    /\ odb_settings' = AllKeys
    /\ odb_interval' = WithDefault("Update interval", odb_interval, DEFAULT_INTERVAL)
    /\ odb_caname' = WithDefault("CA Name", odb_caname,
                                 [k \in Idx(DEFAULT_SIZE) |-> ""])
    /\ odb_enabled' = WithDefault("Enabled", odb_enabled,
                                  [k \in Idx(DEFAULT_SIZE) |-> FALSE])
    /\ LET names == WithDefault("Names", odb_names,
                                [k \in Idx(DEFAULT_SIZE) |-> ""])
           n == Size(names)
       IN  /\ odb_names' = names
           /\ length' = n
           /\ odb_measured' = MeasuredAfterInit(odb_hasMeasured, odb_measured, n)
           /\ enabledAtInit' = [k \in Idx(n) |-> FALSE]
           /\ \E caInit \in {ECA_NORMAL, ECA_ALLOCMEM} :
                 IF CaSucceeded(caInit)
                 THEN /\ status' = caInit
                      /\ measured' = [k \in Idx(n) |-> NULL]
                      /\ initMsgs' = << >>
                      /\ pc' = "init"
                 ELSE /\ status' = FE_ERR_HW
                      /\ measured' = NoArray
                      /\ initMsgs' = << [src |-> "epics_init", name |-> "driver"] >>
                      /\ pc' = "exit"
    /\ updateInterval' = IntToUnsigned(WithDefault("Update interval", odb_interval,
                                                   DEFAULT_INTERVAL))
    /\ odb_hasMeasured' = TRUE
    /\ odb_startCommand' = StartCommandAfterInit(odb_startCommand)
    /\ priorExists' = odb_hasMeasured
    /\ priorMeasured' = odb_measured
    /\ UNCHANGED << last_time_measured, now, chan, name, getStatus,
                    enabledRead, event, retlen, readPos, bank, t, ticks,
                    edited, renamed, attempted, created, connected,
                    connectTimedOut, sweeps, sweepStart, sweepEnd, pre,
                    calls, sweepMsgs, held, interleaved >>

\* one iteration of the loop of epics_init up to the ca_create_channel of
\* line 185: Enabled[i] and CA Name[i] are read when the loop reaches i
InitChannel ==
    /\ pc = "init"
    /\ chan < length
    /\ enabledAtInit' = [enabledAtInit EXCEPT ![chan] = odb_enabled[chan]]
    /\ IF ~InitConnects(chan)
       THEN /\ chan' = chan + 1
            /\ UNCHANGED << pc, name, status, measured, attempted, created >>
       ELSE /\ name' = odb_caname[chan]
            /\ \E st \in CreateStatuses :
                  \E stored \in ChidStored(st) :
                      /\ status' = st
                      /\ measured' = HandlesAfterCreate(measured, chan, stored)
                      /\ created' = IF stored THEN created \cup {chan} ELSE created
            /\ attempted' = attempted \cup {chan}
            /\ pc' = "connect"
            /\ UNCHANGED chan
    /\ UNCHANGED << odb_settings, odb_names, odb_caname, odb_enabled,
                    odb_interval, odb_hasMeasured, odb_measured,
                    odb_startCommand, hooks, length, updateInterval,
                    last_time_measured, now, getStatus, enabledRead, event,
                    retlen, readPos, bank, t, ticks, edited, renamed,
                    priorExists, priorMeasured, connected, connectTimedOut,
                    initMsgs, sweeps, sweepStart, sweepEnd, pre, calls,
                    sweepMsgs, held, interleaved >>

\* the ca_pend_io(5.0) of line 187 returns, and lines 188-190
InitPendIo ==
    /\ pc = "connect"
    /\ \E pendio \in PendIoResults(status), d \in ConnectDelays :
          LET dt == IF pendio = ECA_TIMEOUT THEN CONNECT_TIMEOUT_MS ELSE d
          IN  /\ initMsgs' = initMsgs \o ConnectMsgs(name, pendio)
              /\ status' = IF pendio = ECA_TIMEOUT
                           THEN StatusAfterConnectTimeout(status) ELSE status
              /\ connected' = IF pendio # ECA_TIMEOUT /\ chan \in created
                              THEN connected \cup {chan} ELSE connected
              /\ connectTimedOut' = IF pendio = ECA_TIMEOUT
                                    THEN connectTimedOut \cup {chan}
                                    ELSE connectTimedOut
              /\ chan' = NextInitIndex(chan, length, pendio)
              /\ now' = DwAdd(now, dt)
              /\ t' = t + dt
    /\ name' = ""
    /\ pc' = "init"
    /\ UNCHANGED << odb_settings, odb_names, odb_caname, odb_enabled,
                    odb_interval, odb_hasMeasured, odb_measured,
                    odb_startCommand, hooks, length, updateInterval,
                    measured, last_time_measured, getStatus, enabledRead,
                    event, retlen, readPos, bank, ticks, edited, renamed,
                    enabledAtInit, priorExists, priorMeasured, attempted,
                    created, sweeps, sweepStart, sweepEnd, pre, calls,
                    sweepMsgs, held, interleaved >>

\* the loop of epics_init is left: epics_init and frontend_init return status
\* (lines 200, 147) and the framework goes on only if it is SUCCESS
InitReturn ==
    /\ pc = "init"
    /\ chan >= length
    /\ pc' = IF status = FE_SUCCESS THEN "idle" ELSE "exit"
    /\ chan' = 0
    /\ UNCHANGED << odb_settings, odb_names, odb_caname, odb_enabled,
                    odb_interval, odb_hasMeasured, odb_measured,
                    odb_startCommand, hooks, length, updateInterval,
                    measured, last_time_measured, now, status, name,
                    getStatus, enabledRead, event, retlen, readPos, bank,
                    t, ticks, edited, renamed, enabledAtInit, priorExists,
                    priorMeasured, attempted, created, connected,
                    connectTimedOut, initMsgs, sweeps, sweepStart,
                    sweepEnd, pre, calls, sweepMsgs, held, interleaved >>

(* ---------------- epics_loop, epics_get_measured ---------------- *)

\* the chid of channel k, NULL while beamline.measured is nullptr
HandleFor(k) == IF k \in DOMAIN measured THEN measured[k] ELSE NULL

\* the condition of line 252
GateOpen(clock, last, interval) == DwGt(DwSub(clock, last), interval)

\* a sampler without the test of line 220
SkipsChannel_HandleOnly(channel) == measured[channel] = NULL

\* lines 216 and 220: the channel is skipped without a read
SkipsChannel(channel) == measured[channel] = NULL \/ ~odb_enabled[channel]

\* what the float f of line 226 holds at line 234: the value the channel
\* delivered when ca_get was accepted, else what the stack held
ReadResults(st, s, k) ==
    IF CaSucceeded(st) THEN ReadValues(s, k) ELSE Garbage(odb_measured)

\* a read that writes its float to the slot although ca_pend_io timed out
MeasuredAfterGet_WritesOnTimeout(arr, channel, pend, f) ==
    [arr EXCEPT ![channel] = f]

\* Variables/Measured after lines 229-234; pend is what
\* ca_pend_io(CAGET_TIMEOUT) returns and f what the float f holds
MeasuredAfterGet(arr, channel, pend, f) ==
    IF pend = ECA_TIMEOUT THEN arr ELSE [arr EXCEPT ![channel] = f]

\* a sampler that drops the chid of a channel whose read timed out
HandlesAfterGet_ClearsOnTimeout(handles, channel, pend) ==
    [handles EXCEPT ![channel] = IF pend = ECA_TIMEOUT THEN NULL ELSE @]

\* beamline.measured after epics_get_measured(channel): lines 224-238 assign
\* no chid
HandlesAfterGet(handles, channel, pend) == handles

\* a sampler that reports every read, timed out or not
ReadMsgs_ReportsAll(nm, pend) ==
    << [src |-> "epics_get_measured", name |-> nm] >>

\* the cm_msg calls of lines 229-233 after the read of the channel named nm
ReadMsgs(nm, pend) ==
    IF pend = ECA_TIMEOUT
    THEN << [src |-> "epics_get_measured", name |-> nm] >>
    ELSE << >>

\* what epics_get_measured returns after its ca_pend_io returned pend
ReturnOfGet(pend) == IF pend = ECA_TIMEOUT THEN FE_ERR_HW ELSE FE_SUCCESS

\* a sweep that stops at the first call that fails
NextChan_StopsOnError(channel, ret) ==
    IF ret = FE_SUCCESS THEN channel + 1 ELSE length

\* the loop variable after the call for channel, whatever it returned
NextChan(channel, ret) == channel + 1

\* a sweep that does not record when it ran
LastTimeAfterSweep_NotRecorded(clock, last) == last

\* last_time_measured after a sweep (line 255)
LastTimeAfterSweep(clock, last) == clock

\* whether lines 229-234 write a slot while an epics_read is under way
WritesDuringRead(pend) == readPos # -1 /\ pend # ECA_TIMEOUT

\* the values the slots held during the epics_read under way, after
\* lines 229-234
HeldAfterGet(h, channel, pend, f) ==
    IF WritesDuringRead(pend) THEN [h EXCEPT ![channel] = @ \cup {f}] ELSE h

\* the frontend is past frontend_init and runs the scheduler's cycle
Running == pc \in {"idle", "sweep", "wait", "sleep", "send"}

\* entry of epics_loop, which install_frontend_loop gave to the scheduler:
\* the test of line 252
LoopGate ==
    /\ pc = "idle"
    /\ "epics_loop" \in hooks
    /\ ticks < MaxTicks
    /\ ticks' = ticks + 1
    /\ IF GateOpen(now, last_time_measured, updateInterval)
       THEN /\ pc' = "sweep"
            /\ chan' = 0
            /\ sweeps' = sweeps + 1
            /\ sweepStart' = t
            /\ pre' = odb_measured
            /\ calls' = << >>
            /\ sweepMsgs' = << >>
       ELSE /\ pc' = "sleep"
            /\ UNCHANGED << chan, sweeps, sweepStart, pre, calls, sweepMsgs >>
    /\ UNCHANGED << odb_settings, odb_names, odb_caname, odb_enabled,
                    odb_interval, odb_hasMeasured, odb_measured,
                    odb_startCommand, hooks, length, updateInterval,
                    measured, last_time_measured, now, status, name,
                    getStatus, enabledRead, event, retlen, readPos, bank,
                    t, edited, renamed, enabledAtInit, priorExists,
                    priorMeasured, attempted, created, connected,
                    connectTimedOut, initMsgs, sweepEnd, held, interleaved >>

\* epics_get_measured(chan), called by the loop of lines 253-254, up to its
\* return for a channel it skips or to the ca_get of line 227
GetMeasured ==
    /\ pc = "sweep"
    /\ chan < length
    /\ IF SkipsChannel(chan)
       THEN /\ calls' = Append(calls, [ch |-> chan, ret |-> FE_SUCCESS,
                                       handle |-> measured[chan],
                                       enabled |-> odb_enabled[chan],
                                       name |-> "", issued |-> FALSE,
                                       get |-> ECA_NORMAL, pend |-> ECA_NORMAL,
                                       f |-> 0])
            /\ chan' = NextChan(chan, FE_SUCCESS)
            /\ UNCHANGED << pc, name, getStatus, enabledRead >>
       ELSE /\ enabledRead' = odb_enabled[chan]
            /\ name' = odb_names[chan]
            /\ \E st \in GetStatuses :
                  /\ getStatus' = st
            /\ pc' = "wait"
            /\ UNCHANGED << calls, chan >>
    /\ UNCHANGED << odb_settings, odb_names, odb_caname, odb_enabled,
                    odb_interval, odb_hasMeasured, odb_measured,
                    odb_startCommand, hooks, length, updateInterval,
                    measured, last_time_measured, now, status, event,
                    retlen, readPos, bank, t, ticks, edited, renamed,
                    enabledAtInit, priorExists, priorMeasured, attempted,
                    created, connected, connectTimedOut, initMsgs, sweeps,
                    sweepStart, sweepEnd, pre, sweepMsgs, held, interleaved >>

\* the ca_pend_io(CAGET_TIMEOUT) of line 229 returns, and lines 230-238
GetMeasuredEnd ==
    /\ pc = "wait"
    /\ \E pend \in PendIoResults(getStatus),
          f \in ReadResults(getStatus, sweeps, chan), d \in ReadDelays :
          LET dt == IF pend = ECA_TIMEOUT THEN CAGET_TIMEOUT_MS ELSE d
          IN  /\ odb_measured' = MeasuredAfterGet(odb_measured, chan, pend, f)
              /\ measured' = HandlesAfterGet(measured, chan, pend)
              /\ held' = HeldAfterGet(held, chan, pend, f)
              /\ interleaved' = (interleaved \/ WritesDuringRead(pend))
              /\ sweepMsgs' = sweepMsgs \o ReadMsgs(name, pend)
              /\ calls' = Append(calls, [ch |-> chan, ret |-> ReturnOfGet(pend),
                                         handle |-> measured[chan],
                                         enabled |-> enabledRead,
                                         name |-> name, issued |-> TRUE,
                                         get |-> getStatus, pend |-> pend,
                                         f |-> IF pend # ECA_TIMEOUT THEN f ELSE 0])
              /\ chan' = NextChan(chan, ReturnOfGet(pend))
              /\ now' = DwAdd(now, dt)
              /\ t' = t + dt
    /\ name' = ""
    /\ getStatus' = 0
    /\ enabledRead' = FALSE
    /\ pc' = "sweep"
    /\ UNCHANGED << odb_settings, odb_names, odb_caname, odb_enabled,
                    odb_interval, odb_hasMeasured, odb_startCommand, hooks,
                    length, updateInterval, last_time_measured, status,
                    event, retlen, readPos, bank, ticks, edited, renamed,
                    enabledAtInit, priorExists, priorMeasured, attempted,
                    created, connected, connectTimedOut, initMsgs, sweeps,
                    sweepStart, sweepEnd, pre >>

\* exit of the loop of line 253, and line 255
SweepEnd ==
    /\ pc = "sweep"
    /\ chan >= length
    /\ last_time_measured' = LastTimeAfterSweep(now, last_time_measured)
    /\ sweepEnd' = t
    /\ pc' = "sleep"
    /\ UNCHANGED << odb_settings, odb_names, odb_caname, odb_enabled,
                    odb_interval, odb_hasMeasured, odb_measured,
                    odb_startCommand, hooks, length, updateInterval,
                    measured, now, chan, status, name, getStatus,
                    enabledRead, event, retlen, readPos, bank, t, ticks,
                    edited, renamed, enabledAtInit, priorExists,
                    priorMeasured, attempted, created, connected,
                    connectTimedOut, initMsgs, sweeps, sweepStart, pre,
                    calls, sweepMsgs, held, interleaved >>

\* ss_sleep(500), the return of epics_loop, and the time to its next call
LoopSleep ==
    /\ pc = "sleep"
    /\ \E d \in SleepDelays :
          /\ now' = DwAdd(now, d)
          /\ t' = t + d
    /\ pc' = "idle"
    /\ UNCHANGED << odb_settings, odb_names, odb_caname, odb_enabled,
                    odb_interval, odb_hasMeasured, odb_measured,
                    odb_startCommand, hooks, length, updateInterval,
                    measured, last_time_measured, chan, status, name,
                    getStatus, enabledRead, event, retlen, readPos, bank,
                    ticks, edited, renamed, enabledAtInit, priorExists,
                    priorMeasured, attempted, created, connected,
                    connectTimedOut, initMsgs, sweeps, sweepStart,
                    sweepEnd, pre, calls, sweepMsgs, held, interleaved >>

(* ---------------- epics_read ---------------- *)

\* ALIGN8 of midas.h
Align8(x) == ((x + 7) \div 8) * 8

\* the floats lines 92-93 copy into the bank, in the order written
BankData(arr, n) == [k \in Idx(n) |-> arr[k]]

\* a bank closed with the number of floats as its size
BankDataSize_CountsFloats(n) == n

\* the banks of n floats the model describes: those whose whole structure
\* stays below 2^16 bytes, which the 16-bit sizes of the format bk_init
\* chooses hold (the frontends modelled have DEFAULT_SIZE channels at most)
FitsBank(n) ==
    SIZEOF_BANK_HEADER + SIZEOF_BANK + Align8(SIZEOF_FLOAT * n) < HALF

\* bk_close: the bank's data_size, the bytes between the pdata bk_create
\* returned and the pdata lines 92-93 advanced n times
BankDataSize(n) == CASE FitsBank(n) -> SIZEOF_FLOAT * n

\* bk_size after bk_init, bk_create and bk_close of one bank of n floats
BkSize(n) ==
    CASE FitsBank(n) ->
        SIZEOF_BANK_HEADER + SIZEOF_BANK + Align8(BankDataSize(n))

\* epics_read, called by the scheduler for the periodic equipment
EpicsRead ==
    /\ pc = "idle"
    /\ pc' = "send"
    /\ event' = [name |-> "E000", type |-> "TID_FLOAT",
                 data_size |-> BankDataSize(length),
                 data |-> BankData(odb_measured, length)]
    /\ retlen' = BkSize(length)
    /\ UNCHANGED << odb_settings, odb_names, odb_caname, odb_enabled,
                    odb_interval, odb_hasMeasured, odb_measured,
                    odb_startCommand, hooks, length, updateInterval,
                    measured, last_time_measured, now, chan, status, name,
                    getStatus, enabledRead, readPos, bank, t, ticks,
                    edited, renamed, enabledAtInit, priorExists,
                    priorMeasured, attempted, created, connected,
                    connectTimedOut, initMsgs, sweeps, sweepStart,
                    sweepEnd, pre, calls, sweepMsgs, held, interleaved >>

\* the scheduler sends the event epics_read returned to the buffer of the
\* equipment ("SYSTEM") and the event buffer is free for the next readout
SendEvent ==
    /\ pc = "send"
    /\ pc' = "idle"
    /\ event' = NoArray
    /\ retlen' = -1
    /\ UNCHANGED << odb_settings, odb_names, odb_caname, odb_enabled,
                    odb_interval, odb_hasMeasured, odb_measured,
                    odb_startCommand, hooks, length, updateInterval,
                    measured, last_time_measured, now, chan, status, name,
                    getStatus, enabledRead, readPos, bank, t, ticks,
                    edited, renamed, enabledAtInit, priorExists,
                    priorMeasured, attempted, created, connected,
                    connectTimedOut, initMsgs, sweeps, sweepStart,
                    sweepEnd, pre, calls, sweepMsgs, held, interleaved >>

(* ---------- epics_read called from another context ---------- *)

\* The periodic readout is handed to the framework (line 56), like the loop
\* (line 145).  The actions below are epics_read when the trigger of the
\* equipment calls it from a context of its own, at any moment of a sweep:
\* one step per access to a slot of Variables/Measured, which the ODB
\* serves whole.

\* a copy that leaves the index out
BankAfterCopy_FirstSlot(b, arr, i) ==
    [k \in Idx(i + 1) |-> IF k = i THEN arr[0] ELSE b[k]]

\* the floats written after the iteration i of lines 92-93
BankAfterCopy(b, arr, i) ==
    [k \in Idx(i + 1) |-> IF k = i THEN arr[i] ELSE b[k]]

\* entry of epics_read: bk_init and bk_create (lines 87-90)
EpicsReadBegin ==
    /\ pc \in {"idle", "sweep", "wait", "sleep"}
    /\ readPos = -1
    /\ retlen = -1
    /\ readPos' = 0
    /\ bank' = NoArray
    /\ held' = [k \in DOMAIN odb_measured |-> {odb_measured[k]}]
    /\ interleaved' = FALSE
    /\ UNCHANGED << odb_settings, odb_names, odb_caname, odb_enabled,
                    odb_interval, odb_hasMeasured, odb_measured,
                    odb_startCommand, hooks, length, updateInterval,
                    measured, last_time_measured, now, pc, chan, status,
                    name, getStatus, enabledRead, event, retlen, t, ticks,
                    edited, renamed, enabledAtInit, priorExists,
                    priorMeasured, attempted, created, connected,
                    connectTimedOut, initMsgs, sweeps, sweepStart,
                    sweepEnd, pre, calls, sweepMsgs >>

\* one iteration of the loop of lines 92-93
EpicsReadCopy ==
    /\ readPos # -1
    /\ readPos < length
    /\ bank' = BankAfterCopy(bank, odb_measured, readPos)
    /\ readPos' = readPos + 1
    /\ UNCHANGED << odb_settings, odb_names, odb_caname, odb_enabled,
                    odb_interval, odb_hasMeasured, odb_measured,
                    odb_startCommand, hooks, length, updateInterval,
                    measured, last_time_measured, now, pc, chan, status,
                    name, getStatus, enabledRead, event, retlen, t, ticks,
                    edited, renamed, enabledAtInit, priorExists,
                    priorMeasured, attempted, created, connected,
                    connectTimedOut, initMsgs, sweeps, sweepStart,
                    sweepEnd, pre, calls, sweepMsgs, held, interleaved >>

\* exit of the loop, bk_close and the return of bk_size (lines 94-96)
EpicsReadClose ==
    /\ readPos # -1
    /\ readPos >= length
    /\ event' = [name |-> "E000", type |-> "TID_FLOAT",
                 data_size |-> BankDataSize(length),
                 data |-> bank]
    /\ retlen' = BkSize(length)
    /\ readPos' = -1
    /\ bank' = NoArray
    /\ UNCHANGED << odb_settings, odb_names, odb_caname, odb_enabled,
                    odb_interval, odb_hasMeasured, odb_measured,
                    odb_startCommand, hooks, length, updateInterval,
                    measured, last_time_measured, now, pc, chan, status,
                    name, getStatus, enabledRead, t, ticks, edited,
                    renamed, enabledAtInit, priorExists, priorMeasured,
                    attempted, created, connected, connectTimedOut,
                    initMsgs, sweeps, sweepStart, sweepEnd, pre, calls,
                    sweepMsgs, held, interleaved >>

\* the caller of that epics_read sends the event it returned
SendEventOfRead ==
    /\ pc \in {"idle", "sweep", "wait", "sleep"}
    /\ readPos = -1
    /\ retlen # -1
    /\ event' = NoArray
    /\ retlen' = -1
    /\ UNCHANGED << odb_settings, odb_names, odb_caname, odb_enabled,
                    odb_interval, odb_hasMeasured, odb_measured,
                    odb_startCommand, hooks, length, updateInterval,
                    measured, last_time_measured, now, pc, chan, status,
                    name, getStatus, enabledRead, readPos, bank, t, ticks,
                    edited, renamed, enabledAtInit, priorExists,
                    priorMeasured, attempted, created, connected,
                    connectTimedOut, initMsgs, sweeps, sweepStart,
                    sweepEnd, pre, calls, sweepMsgs, held, interleaved >>

(* ---------------- the ODB's other clients ---------------- *)

\* the frontend has connected to the ODB and has not ended
Started == pc \notin {"boot", "exit"}

\* another client sets Settings/Enabled[k] while the frontend initializes
\* or runs (once)
OdbSetEnabled ==
    /\ Started
    /\ ~edited
    /\ edited' = TRUE
    /\ \E k \in DOMAIN odb_enabled :
          odb_enabled' = [odb_enabled EXCEPT ![k] = ~@]
    /\ UNCHANGED << odb_settings, odb_names, odb_caname, odb_interval,
                    odb_hasMeasured, odb_measured, odb_startCommand, hooks,
                    length, updateInterval, measured, last_time_measured,
                    now, pc, chan, status, name, getStatus, enabledRead,
                    event, retlen, readPos, bank, t, ticks, renamed,
                    enabledAtInit, priorExists, priorMeasured, attempted,
                    created, connected, connectTimedOut, initMsgs, sweeps,
                    sweepStart, sweepEnd, pre, calls, sweepMsgs, held,
                    interleaved >>

\* the name Settings/Names[k] is changed to
Renamed(k) == "alias" \o ToString(k)

\* another client sets Settings/Names[k] while the frontend initializes or
\* runs (Names or CA Name, once)
OdbSetNames ==
    /\ Started
    /\ ~renamed
    /\ renamed' = TRUE
    /\ \E k \in DOMAIN odb_names :
          odb_names' = [odb_names EXCEPT ![k] = Renamed(k)]
    /\ UNCHANGED << odb_settings, odb_caname, odb_enabled, odb_interval,
                    odb_hasMeasured, odb_measured, odb_startCommand, hooks,
                    length, updateInterval, measured, last_time_measured,
                    now, pc, chan, status, name, getStatus, enabledRead,
                    event, retlen, readPos, bank, t, ticks, edited,
                    enabledAtInit, priorExists, priorMeasured, attempted,
                    created, connected, connectTimedOut, initMsgs, sweeps,
                    sweepStart, sweepEnd, pre, calls, sweepMsgs, held,
                    interleaved >>

\* another client sets or clears Settings/CA Name[k] while the frontend
\* initializes or runs (Names or CA Name, once)
OdbSetCaName ==
    /\ Started
    /\ ~renamed
    /\ renamed' = TRUE
    /\ \E k \in DOMAIN odb_caname :
          odb_caname' = [odb_caname EXCEPT ![k] = IF @ = "" THEN PvName(k) ELSE ""]
    /\ UNCHANGED << odb_settings, odb_names, odb_enabled, odb_interval,
                    odb_hasMeasured, odb_measured, odb_startCommand, hooks,
                    length, updateInterval, measured, last_time_measured,
                    now, pc, chan, status, name, getStatus, enabledRead,
                    event, retlen, readPos, bank, t, ticks, edited,
                    enabledAtInit, priorExists, priorMeasured, attempted,
                    created, connected, connectTimedOut, initMsgs, sweeps,
                    sweepStart, sweepEnd, pre, calls, sweepMsgs, held,
                    interleaved >>

\* initialization and the loop
FrontendNext ==
    \/ FrontendInit
    \/ InitChannel
    \/ InitPendIo
    \/ InitReturn
    \/ LoopGate
    \/ GetMeasured
    \/ GetMeasuredEnd
    \/ SweepEnd
    \/ LoopSleep

\* the frontend under the scheduler of the framework, which calls the
\* readout between two calls of the loop
Next ==
    \/ FrontendNext
    \/ EpicsRead
    \/ SendEvent
    \/ OdbSetEnabled

Spec == Init /\ [][Next]_vars

\* the frontend with a client that also edits Settings/Names and CA Name
NextEdit ==
    \/ Next
    \/ OdbSetNames
    \/ OdbSetCaName

SpecEdit == InitEdit /\ [][NextEdit]_vars

\* the frontend started on Settings arrays of different sizes
SpecMismatch == InitMismatch /\ [][Next]_vars

\* the frontend whose readout is called from another context
NextConcurrent ==
    \/ FrontendNext
    \/ EpicsReadBegin
    \/ EpicsReadCopy
    \/ EpicsReadClose
    \/ SendEventOfRead

SpecConcurrent == InitEdit /\ [][NextConcurrent]_vars

(* ================= the claims ================= *)

\* a call of the last sweep whose read timed out / delivered a value
TimedOut(c) == c.issued /\ c.pend = ECA_TIMEOUT
ReadOk(c) == c.issued /\ c.get = ECA_NORMAL /\ c.pend # ECA_TIMEOUT

\* a sweep is under way
Sweeping == pc \in {"sweep", "wait"}

\* C1: in a sweep, a channel whose read timed out keeps the value its slot
\* had before the sweep, every channel whose read succeeded holds the value
\* just read, and after a timeout on k the sweep still calls every index
\* after k.
C1_TimeoutKeepsSlot ==
    \A i \in 1 .. Len(calls) :
        LET c == calls[i]
        IN  /\ TimedOut(c) => odb_measured[c.ch] = pre[c.ch]
            /\ ReadOk(c) => odb_measured[c.ch] = c.f
            /\ (TimedOut(c) /\ ~Sweeping) =>
                  \A j \in (c.ch + 1) .. (length - 1) :
                      \E i2 \in 1 .. Len(calls) : calls[i2].ch = j

\* C1 witness: a finished sweep over two channels where the read of channel
\* 0 timed out, keeping a value of a prior run, and channel 1 was updated.
C1_Witness ==
    /\ pc = "sleep"
    /\ Len(calls) = 2
    /\ TimedOut(calls[1])
    /\ ReadOk(calls[2])
    /\ odb_measured[0] = 10
    /\ odb_measured[1] = calls[2].f
    /\ odb_measured[1] # pre[1]

\* C2: a sweep starts only when more than Update interval milliseconds have
\* truly passed since the start of the sweep before it, and a call of
\* epics_loop that finds the gate closed reads nothing and changes no slot.
C2_SweepStartsSpaced ==
    [][ (pc = "idle" /\ pc' \in {"sweep", "sleep"}) =>
          IF pc' = "sweep"
          THEN sweepStart = -1 \/ DwGt(ToDw(t - sweepStart), updateInterval)
          ELSE /\ pc' = "sleep"
               /\ sweeps' = sweeps
               /\ calls' = calls
               /\ odb_measured' = odb_measured ]_vars

\* C2 witness: with an interval of 1000 ms, a second sweep has started, more than
\* 1000 ms after the end of the first.
C2_Witness ==
    /\ updateInterval = ToDw(1000)
    /\ sweeps = 2
    /\ pc = "sweep"
    /\ sweepEnd >= 0
    /\ t - sweepEnd > 1000

\* C3: when the connect of a channel timed out in epics_init, the loop is
\* left with FE_ERR_HW, frontend_init returns it and the frontend does not
\* start.
C3_ConnectTimeoutIsFatal ==
    (connectTimedOut # {}) =>
        /\ status = FE_ERR_HW
        /\ pc \in {"init", "exit"}
        /\ pc = "init" => chan >= length

\* C3 witness: channel 0 connected, then the connect of channel 1 timed out.
C3_Witness ==
    /\ pc = "exit"
    /\ 0 \in connected
    /\ 1 \in connectTimedOut

\* C4: ca_create_channel is called only for channels that line 172 found
\* enabled, and a channel it found disabled never has a handle.
C4_DisabledNeverConnected ==
    /\ \A k \in attempted : enabledAtInit[k]
    /\ \A k \in DOMAIN enabledAtInit : ~enabledAtInit[k] => HandleFor(k) = NULL

\* C4 witness: after a sweep, of two named channels the disabled one has no
\* handle and the enabled one was connected.
C4_Witness ==
    /\ sweeps >= 1
    /\ length = 2
    /\ ~enabledAtInit[0] /\ odb_caname[0] # "" /\ HandleFor(0) = NULL
    /\ enabledAtInit[1] /\ 1 \in connected /\ HandleFor(1) # NULL

\* C5 as stated: epics_read returns 4 * N, and 0 for N = 0.
C5_ReturnsFourN == retlen # -1 => retlen = 4 * length

\* C5 amended: the E000 bank epics_read writes holds the N floats of
\* Measured (none for N = 0) and declares a data size of 4 * N bytes, and
\* the value epics_read returns is the size of the bank structure around
\* them, which is more than 4 * N: 16 bytes of headers plus the data padded
\* to a multiple of 8 bytes (16 for N = 0, 24 for N = 1 and N = 2).
C5_BankHoldsFourN ==
    retlen # -1 =>
        /\ event.data_size = 4 * length
        /\ DOMAIN event.data = 0 .. length - 1
        /\ retlen = 16 + 8 * ((4 * length + 7) \div 8)
        /\ retlen > 4 * length
        /\ length = 0 => retlen = 16
        /\ length \in {1, 2} => retlen = 24

\* C5 witness: after a sweep, epics_read has returned 24 for one channel,
\* whose bank declares 4 bytes of data and holds the sample the sweep read.
C5_Witness ==
    /\ retlen = 24
    /\ length = 1
    /\ event.data_size = 4
    /\ sweeps >= 1
    /\ event.data[0] = odb_measured[0]
    /\ event.data[0] >= 100

\* Variables/Measured[k] as frontend_init leaves it: the value of the prior
\* run where the array existed and had a slot k, else zero
LeftByInit(k) ==
    IF priorExists /\ k \in DOMAIN priorMeasured THEN priorMeasured[k] ELSE 0

\* C6 as stated: before any sweep, epics_read returns N zeros whatever the
\* ODB held before initialization.
C6_ZerosBeforeSweep ==
    (retlen # -1 /\ sweeps = 0) => \A k \in Idx(length) : event.data[k] = 0

\* C6 amended: before any sweep, epics_read returns N values, value k being
\* the one Measured[k] held from a prior run where there was one, and zero
\* where Measured was absent or shorter.
C6_InitValuesBeforeSweep ==
    (retlen # -1 /\ sweeps = 0) =>
        /\ DOMAIN event.data = Idx(length)
        /\ \A k \in Idx(length) : event.data[k] = LeftByInit(k)

\* C6 witness: before any sweep epics_read returned two values, the first
\* left by a prior run of one channel, the second zero.
C6_Witness ==
    /\ retlen # -1
    /\ sweeps = 0
    /\ length = 2
    /\ priorExists
    /\ event.data[0] = 10
    /\ event.data[1] = 0

\* the channels of the calls of the last sweep, in the order of the calls
RECURSIVE ChannelsOf(_)
ChannelsOf(cs) ==
    IF cs = << >> THEN << >> ELSE << cs[1].ch >> \o ChannelsOf(Tail(cs))

\* the indices 0, 1, ..., n - 1 in increasing order
UpTo(n) == [i \in 1 .. n |-> i - 1]

\* C8: a sweep calls epics_get_measured once for each index 0..N-1 in
\* increasing order whatever the calls return, then stores the clock in
\* last_time_measured and leaves the loop; in every state of the cycle a
\* next step exists (the next epics_loop call being bounded by MaxTicks).
C8_SweepCompletes ==
    /\ Sweeping => /\ chan <= length
                   /\ ChannelsOf(calls) = UpTo(chan)
    /\ pc = "sweep" => ENABLED (GetMeasured \/ SweepEnd)
    /\ pc = "wait" => ENABLED GetMeasuredEnd
    /\ (Running /\ ~Sweeping /\ sweeps > 0) =>
          /\ ChannelsOf(calls) = UpTo(length)
          /\ sweepEnd >= sweepStart
          /\ last_time_measured = DwSub(now, ToDw(t - sweepEnd))
    /\ pc = "sleep" => ENABLED LoopSleep
    /\ (pc = "idle" /\ ticks < MaxTicks) => ENABLED LoopGate

\* C8 witness: a sweep over two channels has ended in which both reads
\* timed out.
C8_Witness ==
    /\ pc = "sleep"
    /\ Len(calls) = 2
    /\ TimedOut(calls[1])
    /\ TimedOut(calls[2])
    /\ sweepEnd = t

\* C9: a call of epics_get_measured for a channel without a handle, or
\* disabled, issues no read, changes no Measured slot, reports no error and
\* returns FE_SUCCESS.
C9_SkippedChannelNoOp ==
    [][ ( /\ pc = "sweep"
          /\ chan < length
          /\ chan' # chan \/ pc' = "wait"
          /\ (HandleFor(chan) = NULL \/ ~odb_enabled[chan]) ) =>
        ( /\ pc' = "sweep"
          /\ odb_measured' = odb_measured
          /\ sweepMsgs' = sweepMsgs
          /\ Len(calls') = Len(calls) + 1
          /\ ~calls'[Len(calls')].issued
          /\ calls'[Len(calls')].ret = FE_SUCCESS
          /\ t' = t ) ]_vars

\* C9 witness: a sweep has skipped a channel that has a handle and was
\* disabled after initialization, and one that never had a handle.
C9_Witness ==
    /\ Len(calls) = 2
    /\ calls[1].handle # NULL /\ ~calls[1].enabled /\ ~calls[1].issued
    /\ calls[2].handle = NULL /\ ~calls[2].issued

\* C10: when Measured existed with fewer slots than the configured N,
\* frontend_init leaves it with N slots, the old values first and zeros in
\* the new slots; when it was absent, with N zeros.
C10_MeasuredGrown ==
    (pc # "boot" /\ sweeps = 0 /\ (~priorExists \/ Size(priorMeasured) < length)) =>
        /\ DOMAIN odb_measured = Idx(length)
        /\ \A k \in Idx(length) :
              odb_measured[k] = IF priorExists /\ k < Size(priorMeasured)
                                THEN priorMeasured[k] ELSE 0

\* C10 witness: a prior run left one value and the frontend starts with two
\* channels.
C10_Witness ==
    /\ pc = "idle"
    /\ sweeps = 0
    /\ priorExists
    /\ Size(priorMeasured) = 1
    /\ length = 2
    /\ odb_measured[0] = 10
    /\ odb_measured[1] = 0

\* C11: the pause of epics_loop, LOOP_SLEEP_MS, is smaller than the Update
\* interval the frontend runs with, whatever the configuration.
C11_PauseBelowInterval ==
    Running => DwGt(updateInterval, ToDw(LOOP_SLEEP_MS))

\* the calls of the sequence cs whose read timed out, in order
RECURSIVE TimedOutCalls(_)
TimedOutCalls(cs) ==
    IF cs = << >> THEN << >>
    ELSE (IF TimedOut(cs[1]) THEN << cs[1] >> ELSE << >>) \o TimedOutCalls(Tail(cs))

\* C13: the messages of a sweep are one per read that timed out, in the
\* order of the reads, each naming its channel by Settings/Names, and none
\* for a read that succeeded or was skipped; a connect timeout in epics_init
\* leaves exactly one message, naming the channel by its CA Name, and an
\* initialization without a timeout or a driver failure leaves none.
C13_OneMessagePerFailure ==
    /\ LET bad == TimedOutCalls(calls)
       IN  /\ Len(sweepMsgs) = Len(bad)
           /\ \A i \in 1 .. Len(bad) :
                 sweepMsgs[i] = [src |-> "epics_get_measured",
                                 name |-> odb_names[bad[i].ch]]
    /\ \A k \in connectTimedOut :
          initMsgs = << [src |-> "epics_init", name |-> odb_caname[k]] >>
    /\ (connectTimedOut = {} /\ status # FE_ERR_HW) => initMsgs = << >>
    /\ Running => initMsgs = << >>

\* C13 witness: a sweep over two channels has ended in which the read of
\* channel 0 succeeded and the read of channel 1 timed out and was reported
\* once.
C13_Witness ==
    /\ pc = "sleep"
    /\ Len(calls) = 2
    /\ ReadOk(calls[1])
    /\ TimedOut(calls[2])
    /\ sweepMsgs = << [src |-> "epics_get_measured", name |-> "name1"] >>

\* C14: when the connect of channel k timed out in epics_init, every channel
\* before k that connected has its handle and no channel after k was
\* attempted or has a handle.
C14_NoRollbackNoFurtherConnect ==
    \A k \in connectTimedOut :
        /\ \A j \in connected : j < k /\ HandleFor(j) = ChidOf(j)
        /\ \A j \in DOMAIN odb_names :
              j > k => (j \notin attempted /\ HandleFor(j) = NULL)

\* C14 witness: the connect of channel 0 timed out and channel 1, enabled
\* and named, was not attempted.
C14_Witness ==
    /\ pc = "exit"
    /\ 0 \in connectTimedOut
    /\ length = 2
    /\ odb_enabled[1] /\ odb_caname[1] # ""
    /\ 1 \notin attempted
    /\ HandleFor(1) = NULL

\* C15 as stated: in every state outside a connect wait, a channel has a
\* handle only if it was enabled at initialization and its connect
\* completed in time.
C15_HandleOnlyIfConnected ==
    pc # "connect" =>
        \A k \in DOMAIN odb_names :
            HandleFor(k) # NULL => (enabledAtInit[k] /\ k \in connected)

\* C15 amended: a channel has a handle exactly if line 172 found it enabled,
\* ca_create_channel was called for it and stored a chid, as every call that
\* succeeds does; every channel whose connect completed has one, and while
\* the frontend runs no other channel has; the channel whose connect timed
\* out keeps the chid that ca_create_channel stored, in the initialization
\* that then fails.
C15_HandleIffCreated ==
    /\ \A k \in DOMAIN odb_names :
          /\ HandleFor(k) # NULL => (enabledAtInit[k] /\ k \in attempted)
          /\ HandleFor(k) # NULL <=> k \in created
    /\ (pc = "connect" /\ CaSucceeded(status)) => HandleFor(chan) # NULL
    /\ connected \subseteq created
    /\ Running => \A k \in DOMAIN odb_names :
                      HandleFor(k) # NULL <=> k \in connected
    /\ (connectTimedOut # {}) => ~Running

\* C15 witness: initialization has failed on channel 1, which has a handle
\* although its connect timed out, after channel 0 connected.
C15_Witness ==
    /\ pc = "exit"
    /\ status = FE_ERR_HW
    /\ HandleFor(0) # NULL /\ 0 \in connected
    /\ HandleFor(1) # NULL /\ 1 \in connectTimedOut

\* C16: a channel that has an empty CA Name, enabled or not, is not connected
\* and has no handle, no sweep reads it or writes its slot, and
\* initialization fails only for a driver failure or after
\* ca_create_channel was called, which it is for named channels only.
C16_UnnamedChannelUntouched ==
    /\ \A k \in DOMAIN enabledAtInit :
          odb_caname[k] = "" =>
              /\ k \notin attempted
              /\ HandleFor(k) = NULL
              /\ odb_measured[k] = LeftByInit(k)
              /\ \A i \in 1 .. Len(calls) : calls[i].ch = k => ~calls[i].issued
    /\ \A k \in attempted : odb_caname[k] # ""
    /\ (pc = "exit" /\ attempted = {}) =>
          initMsgs = << [src |-> "epics_init", name |-> "driver"] >>

\* C16 witness: a sweep has ended that read channel 1 and left the slot of
\* the enabled, unnamed channel 0 with the value of a prior run.
C16_Witness ==
    /\ pc = "sleep"
    /\ Len(calls) = 2
    /\ enabledAtInit[0] /\ odb_enabled[0] /\ odb_caname[0] = ""
    /\ ~calls[1].issued
    /\ odb_measured[0] = 10
    /\ ReadOk(calls[2])
    /\ odb_measured[1] = calls[2].f

\* C17: after initialization N is the size of Settings/Names and the
\* handles are those of the channels that connected, whatever reads timed
\* out since; so every call for a connected, enabled channel issues a read,
\* and a read that succeeds updates the slot.
C17_HandlesSurviveTimeouts ==
    /\ pc # "boot" => length = Size(odb_names)
    /\ Running => \A k \in Idx(length) :
                      HandleFor(k) = IF k \in connected THEN ChidOf(k) ELSE NULL
    /\ \A i \in 1 .. Len(calls) :
          LET c == calls[i]
          IN  /\ (c.ch \in connected /\ c.enabled) => c.issued
              /\ ReadOk(c) => odb_measured[c.ch] = c.f

\* C17 witness: the second sweep has read channel 0 and updated its slot,
\* which the first sweep had left at its initial value: its read had timed
\* out, the channel being connected and enabled throughout.
C17_Witness ==
    /\ sweeps = 2
    /\ ~edited
    /\ Len(calls) >= 1
    /\ ReadOk(calls[1])
    /\ enabledAtInit[0]
    /\ pre[0] < 100
    /\ odb_measured[0] = SampleOf(2, 0)

\* C19: last_time_measured is 0 until a sweep has ended and then the clock
\* value at the end of the last sweep; a sweep that starts after another
\* one starts more than Update interval milliseconds of true time after
\* that one ended, also when the 32-bit clock wrapped around in between.
C19_GateSurvivesWrap ==
    /\ sweepEnd = -1 => last_time_measured = ToDw(0)
    /\ (sweepEnd >= 0 /\ ~Sweeping) =>
          DwAdd(last_time_measured, t - sweepEnd) = now
    /\ (Sweeping /\ sweepEnd >= 0) =>
          /\ sweepStart > sweepEnd
          /\ DwGt(ToDw(sweepStart - sweepEnd), updateInterval)

\* C19 witness: with an interval of 1000 ms a second sweep has started after
\* the clock wrapped around: the clock is below last_time_measured.
C19_Witness ==
    /\ pc = "sweep"
    /\ sweeps = 2
    /\ updateInterval = ToDw(1000)
    /\ DwGt(last_time_measured, now)
    /\ sweepStart - sweepEnd > 1000

\* C20 as stated, for the runs the model has: whatever the interval, there
\* is a clock value at which the gate of line 252 opens, namely the one
\* farthest from last_time_measured (the difference is then 2^32 - 1).
C20_SweepCanStart ==
    Running =>
        GateOpen(DwSub(last_time_measured, ToDw(1)), last_time_measured,
                 updateInterval)

\* C12 as stated: Settings/Enabled and Settings/Names are read once, at
\* initialization: a sweep reads the channels that have a handle and were
\* enabled then, and reports a timeout under the name the channel had then.
C12_ConfigReadOnce ==
    /\ \A i \in 1 .. Len(calls) :
          calls[i].issued <=>
              (calls[i].handle # NULL /\ enabledAtInit[calls[i].ch])
    /\ \A j \in 1 .. Len(sweepMsgs) :
          \E k \in Idx(length) : sweepMsgs[j].name = DisplayName(k)

\* C7: an epics_read called while a sweep is in progress returns, for each
\* index i, a value that Measured[i] held at some moment during the call,
\* at position i of the bank (index order 0..N-1); when no write of the
\* sweep falls into the call, the bank is the Measured array as it is.
C7_RecordOfHeldValues ==
    /\ readPos # -1 =>
          /\ readPos \in 0 .. length
          /\ DOMAIN bank = 0 .. readPos - 1
          /\ \A k \in DOMAIN bank : bank[k] \in held[k]
          /\ ~interleaved => \A k \in DOMAIN bank : bank[k] = odb_measured[k]
    /\ (readPos = -1 /\ retlen # -1) =>
          /\ DOMAIN event.data = 0 .. length - 1
          /\ \A k \in 0 .. length - 1 : event.data[k] \in held[k]
          /\ ~interleaved => \A k \in 0 .. length - 1 : held[k] = {event.data[k]}

\* C7 witness: during one epics_read of two channels the sweep wrote slot 0
\* after the copy had passed it and slot 1 before the copy reached it: the
\* record holds the old value of slot 0 and the new one of slot 1.
C7_Witness ==
    /\ readPos = -1 /\ retlen # -1
    /\ length = 2
    /\ interleaved
    /\ Cardinality(held[0]) = 2 /\ Cardinality(held[1]) = 2
    /\ event.data[0] # odb_measured[0]
    /\ event.data[1] = odb_measured[1]
    /\ event.data[1] = SampleOf(sweeps, 1)

\* C18 as stated: started on Settings arrays of different sizes, the
\* frontend does not run: initialization fails.
C18_MismatchIsFatal ==
    ( Size(odb_caname) # Size(odb_names)
      \/ Size(odb_enabled) # Size(odb_names) ) => ~Running

====
